---- MODULE Spec2Model ----
(***************************************************************************)
(* Golf swing analysis: the swing interval detector and metrics analyzer   *)
(* (utils/metrics), the club orientation resolver (utils/clubDetection)    *)
(* and the review page's post-analysis sweep that drives them.             *)
(*                                                                         *)
(* Units.  Landmark coordinates are integers in 1/1000 of the normalized   *)
(* frame.  Velocities are kept squared (dx^2 + dy^2): every comparison the *)
(* detector makes between velocities, and against 0.08 * maxVel, is        *)
(* preserved exactly by squaring.  Timestamps are in 1/3 ms, so that one   *)
(* frame at 30 fps is 100 units.  Head movement is reported in 1/10 cm.    *)
(* Angles are in 1/AngleUnit degrees, which keeps the 0.3-weighted blend   *)
(* exact over the number of blends the model allows.                       *)
(***************************************************************************)
EXTENDS Integers, Sequences, FiniteSets, TLC

VARIABLES
    frames,           \* pure-function specs: the PoseFrame[] argument
    pc,               \* pure-function specs: "input" | "done" | "again"
    scan,             \* detectSwingInterval's locals when it returns
    interval,         \* detectSwingInterval's return value
    metrics,          \* analyzeSwing's return value
    calls,            \* history: the argument and result of each analyzeSwing call
    inferenceSession, \* clubDetection module: "null" | "loaded"
    isLoading,        \* clubDetection module: initSession in progress
    lastAngle,        \* clubDetection module: None or [v |-> angle]
    store,            \* storage: session id -> stored SwingSession
    run,              \* per session: the loadSession / runPostAnalysis invocation
    page,             \* ReviewPage state: sessionId, error, isAnalyzing, metrics
    loads,            \* number of loadSession calls so far
    blends,           \* number of smoothing blends so far
    lastBy,           \* history: the session whose frame wrote lastAngle
    streak,           \* history: the run of head-path frames with one same raw angle
    call              \* history: the last call of detectClub, its inputs and result

pureVars == <<frames, pc, scan, interval, metrics, calls>>
sweepVars ==
    <<inferenceSession, isLoading, lastAngle, store, run, page, loads, blends, lastBy, streak,
      call>>
vars == <<pureVars, sweepVars>>

\* null and undefined
None == [none |-> TRUE]

Max(a, b) == IF a >= b THEN a ELSE b
Min(a, b) == IF a <= b THEN a ELSE b
Abs(a) == IF a >= 0 THEN a ELSE -a

(***************************************************************************)
(* Bounds of the model.                                                    *)
(***************************************************************************)
MaxFrames == 34          \* longest frame sequence handed to the detector
BlipSpan == 6            \* how far from the peak the second special step is
LongFrames == 56         \* a sequence long enough for a forced window clipped on one side only
MaxMetricFrames == 4     \* longest sequence handed to analyzeSwing directly
MaxCalls == 3            \* analyzeSwing calls in a behaviour
MaxSweepFrames == 2      \* frames of a session's video
MaxLoads == 2            \* loadSession calls in a behaviour
MaxSweepBlends == 2      \* smoothing blends in a behaviour of the sweeps
MaxSmooth == 5           \* smoothing blends in a row (the blend stays exact)

(***************************************************************************)
(* Landmarks.  A landmark list is its length plus the joints the code      *)
(* reads; landmarks[i] is defined exactly when i < len.                    *)
(***************************************************************************)
NOSE == 0
LEFT_SHOULDER == 11
RIGHT_SHOULDER == 12
LEFT_WRIST == 15
RIGHT_WRIST == 16
LEFT_HIP == 23
RIGHT_HIP == 24
FullLen == 33

Pt(x, y) == [x |-> x, y |-> y]

EmptyLandmarks ==
    [len |-> 0, nose |-> Pt(0, 0), lsh |-> Pt(0, 0), rsh |-> Pt(0, 0),
     lwr |-> Pt(0, 0), rwr |-> Pt(0, 0), lhip |-> Pt(0, 0), rhip |-> Pt(0, 0)]

\* An upright body: shoulders above hips, hands below the shoulders.
FullLandmarks ==
    [len |-> FullLen, nose |-> Pt(500, 200), lsh |-> Pt(520, 300), rsh |-> Pt(480, 300),
     lwr |-> Pt(520, 400), rwr |-> Pt(0, 450), lhip |-> Pt(520, 600), rhip |-> Pt(480, 600)]

Has(lm, i) == i < lm.len

Frame(ts, lm) == [timestamp |-> ts, landmarks |-> lm, club |-> None]

TsPerFrame == 100

(***************************************************************************)
(* The state at construction: the module variables of clubDetection, the   *)
(* stored sessions, and no loadSession running.                            *)
(***************************************************************************)
Sessions == {"a", "b"}

Stored(poseFrames, nVideo) == [poseFrames |-> poseFrames, nVideo |-> nVideo]

IdleRun ==
    [pc |-> "idle", i |-> 0, frames |-> <<>>, cur |-> None, doPose |-> FALSE,
     doClub |-> FALSE, metrics |-> None, why |-> "", trace |-> <<>>]

InitSweepCore ==
    /\ inferenceSession = "null"
    /\ isLoading = FALSE
    /\ lastAngle = None
    /\ run = [s \in Sessions |-> IdleRun]
    /\ page = [sessionId |-> None, error |-> FALSE, isAnalyzing |-> FALSE, metrics |-> None]
    /\ loads = 0
    /\ blends = 0
    /\ lastBy = None
    /\ streak = [raw |-> 0, n |-> 0]

InitSweepRest ==
    /\ InitSweepCore
    /\ call = None

InitSweepIdle ==
    /\ store = [s \in Sessions |-> Stored(<<>>, 0)]
    /\ InitSweepRest

(***************************************************************************)
(* detectSwingInterval                                                     *)
(***************************************************************************)
\* calculateVelocity, squared
calculateVelocity(prev, curr) ==
    (curr.x - prev.x) * (curr.x - prev.x) + (curr.y - prev.y) * (curr.y - prev.y)

\* velocities[k], k in 0 .. frames.length-2  (the loop at i = k + 1)
Velocities(fs) ==
    [k \in 0 .. Len(fs) - 2 |->
        IF Has(fs[k + 1].landmarks, RIGHT_WRIST) /\ Has(fs[k + 2].landmarks, RIGHT_WRIST)
        THEN calculateVelocity(fs[k + 1].landmarks.rwr, fs[k + 2].landmarks.rwr)
        ELSE 0]

\* lines 131-136 with >= for >: the last of equal velocities wins
RECURSIVE MaxVelScanLatest(_, _, _, _, _)
MaxVelScanLatest(vel, n, i, maxVel, maxVelIndex) ==
    IF i >= n THEN [maxVel |-> maxVel, maxVelIndex |-> maxVelIndex]
    ELSE IF vel[i] >= maxVel THEN MaxVelScanLatest(vel, n, i + 1, vel[i], i)
    ELSE MaxVelScanLatest(vel, n, i + 1, maxVel, maxVelIndex)

RECURSIVE MaxVelScan(_, _, _, _, _)
MaxVelScan(vel, n, i, maxVel, maxVelIndex) ==
    IF i >= n THEN [maxVel |-> maxVel, maxVelIndex |-> maxVelIndex]
    ELSE IF vel[i] > maxVel THEN MaxVelScan(vel, n, i + 1, vel[i], i)
    ELSE MaxVelScan(vel, n, i + 1, maxVel, maxVelIndex)

\* v < maxVel * 0.08 and v > maxVel * 0.08 on squared values: 0.08^2 = 4/625
BelowThreshold(v, maxVel) == 625 * v < 4 * maxVel
AboveThreshold(v, maxVel) == 625 * v > 4 * maxVel

\* line 148 with "not below" for "above": a step at the threshold breaks the run
StableBeforeStrict(vel, i, maxVel) ==
    \A j \in 1 .. 3 : (i - j >= 0) => BelowThreshold(vel[i - j], maxVel)

StableBefore(vel, i, maxVel) ==
    \A j \in 1 .. 3 : (i - j >= 0) => ~AboveThreshold(vel[i - j], maxVel)

\* lines 142-159 without the 15 frames kept before the stable frame
RECURSIVE StartScanUnpadded(_, _, _)
StartScanUnpadded(vel, i, maxVel) ==
    IF i < 0 THEN 0
    ELSE IF BelowThreshold(vel[i], maxVel) /\ StableBefore(vel, i, maxVel)
         THEN Max(0, i)
    ELSE StartScanUnpadded(vel, i - 1, maxVel)

RECURSIVE StartScan(_, _, _)
StartScan(vel, i, maxVel) ==
    IF i < 0 THEN 0
    ELSE IF BelowThreshold(vel[i], maxVel) /\ StableBefore(vel, i, maxVel)
         THEN Max(0, i - 15)
    ELSE StartScan(vel, i - 1, maxVel)

\* line 168 with "not below" for "above": a step at the threshold breaks the run
StableAfterStrict(vel, n, i, maxVel) ==
    \A j \in 1 .. 5 : (i + j < n) => BelowThreshold(vel[i + j], maxVel)

StableAfter(vel, n, i, maxVel) ==
    \A j \in 1 .. 5 : (i + j < n) => ~AboveThreshold(vel[i + j], maxVel)

\* lines 161-177 with the 20 frames taken off the stable frame, not added
RECURSIVE EndScanCutShort(_, _, _, _, _)
EndScanCutShort(vel, n, i, maxVel, lastIndex) ==
    IF i >= n THEN lastIndex
    ELSE IF BelowThreshold(vel[i], maxVel) /\ StableAfter(vel, n, i, maxVel)
         THEN Min(lastIndex, i - 20)
    ELSE EndScanCutShort(vel, n, i + 1, maxVel, lastIndex)

RECURSIVE EndScan(_, _, _, _, _)
EndScan(vel, n, i, maxVel, lastIndex) ==
    IF i >= n THEN lastIndex
    ELSE IF BelowThreshold(vel[i], maxVel) /\ StableAfter(vel, n, i, maxVel)
         THEN Min(lastIndex, i + 20)
    ELSE EndScan(vel, n, i + 1, maxVel, lastIndex)

\* The safety check of lines 179-183 left out: the natural scan is returned as it is.
SafetyCheckSkipped(natStart, natEnd, maxVelIndex, lastIndex) ==
    [startIndex |-> natStart, endIndex |-> natEnd, forced |-> FALSE]

\* The safety check of lines 179-183 with a window of 30 frames either side.
SafetyCheckThirty(natStart, natEnd, maxVelIndex, lastIndex) ==
    IF natEnd - natStart < 30
    THEN [startIndex |-> Max(0, maxVelIndex - 30),
          endIndex |-> Min(lastIndex, maxVelIndex + 30),
          forced |-> TRUE]
    ELSE [startIndex |-> natStart, endIndex |-> natEnd, forced |-> FALSE]

SafetyCheck(natStart, natEnd, maxVelIndex, lastIndex) ==
    IF natEnd - natStart < 30
    THEN [startIndex |-> Max(0, maxVelIndex - 45),
          endIndex |-> Min(lastIndex, maxVelIndex + 45),
          forced |-> TRUE]
    ELSE [startIndex |-> natStart, endIndex |-> natEnd, forced |-> FALSE]

\* The locals of detectSwingInterval for frames.length >= 10.
SwingScan(fs) ==
    LET vel == Velocities(fs)
        n == Len(fs) - 1
        lastIndex == Len(fs) - 1
        mx == MaxVelScan(vel, n, 0, 0, 0)
        natStart == StartScan(vel, mx.maxVelIndex, mx.maxVel)
        natEnd == EndScan(vel, n, mx.maxVelIndex, mx.maxVel, lastIndex)
        fin == SafetyCheck(natStart, natEnd, mx.maxVelIndex, lastIndex)
    IN  [ran |-> TRUE, maxVel |-> mx.maxVel, maxVelIndex |-> mx.maxVelIndex,
         natStart |-> natStart, natEnd |-> natEnd,
         startIndex |-> fin.startIndex, endIndex |-> fin.endIndex,
         forced |-> fin.forced]

NoScan ==
    [ran |-> FALSE, maxVel |-> 0, maxVelIndex |-> 0, natStart |-> 0, natEnd |-> 0,
     startIndex |-> 0, endIndex |-> 0, forced |-> FALSE]

\* x || y for numbers: 0 is falsy
OrElse(x, y) == IF x # 0 THEN x ELSE y

ScanOf(fs) == IF Len(fs) < 10 THEN NoScan ELSE SwingScan(fs)

\* the early return of lines 112-114 taken for an empty sequence only
IntervalOfEmptyOnly(fs, sc) ==
    IF Len(fs) < 1
    THEN [start |-> 0, end |-> 0]
    ELSE [start |-> OrElse(fs[sc.startIndex + 1].timestamp, 0),
          end |-> OrElse(fs[sc.endIndex + 1].timestamp, fs[Len(fs)].timestamp)]

\* lines 185-186 with the two indices taken for each other
IntervalOfSwapped(fs, sc) ==
    IF Len(fs) < 10
    THEN [start |-> 0, end |-> IF Len(fs) = 0 THEN 0 ELSE OrElse(fs[Len(fs)].timestamp, 0)]
    ELSE [start |-> OrElse(fs[sc.endIndex + 1].timestamp, 0),
          end |-> OrElse(fs[sc.startIndex + 1].timestamp, fs[Len(fs)].timestamp)]

IntervalOf(fs, sc) ==
    IF Len(fs) < 10
    THEN [start |-> 0, end |-> IF Len(fs) = 0 THEN 0 ELSE OrElse(fs[Len(fs)].timestamp, 0)]
    ELSE [start |-> OrElse(fs[sc.startIndex + 1].timestamp, 0),
          end |-> OrElse(fs[sc.endIndex + 1].timestamp, fs[Len(fs)].timestamp)]

detectSwingInterval(fs) == IntervalOf(fs, ScanOf(fs))

(***************************************************************************)
(* Inputs of the interval detector: a right wrist that drifts slowly, makes *)
(* one jump (the impact), and has one second special                      *)
(* step near it: a step at, just above or equal to the peak, at the        *)
(* activity threshold, or a frame without landmarks.  The first frame's    *)
(* timestamp is 0 (an imported video) or FirstTs (a recording).            *)
(***************************************************************************)
FirstTs == 40

BlipKinds == {"low", "eq", "over", "tie", "gap", "still"}

\* Wrist steps: the drift is 1, the impact 25, so that the activity threshold
\* 0.08 * 25 is exactly a step of 2.
StepSize(kind) ==
    CASE kind = "peak" -> 25
      [] kind = "tie" -> 25
      [] kind = "over" -> 3
      [] kind = "eq" -> 2
      [] OTHER -> 1

\* x of the right wrist at frame f (0-based)
WristX(f, pk, bl, kind) ==
    IF kind = "still" THEN 0
    ELSE f * StepSize("low")
           + (IF f > pk THEN StepSize("peak") - StepSize("low") ELSE 0)
           + (IF f > bl THEN StepSize(kind) - StepSize("low") ELSE 0)

SwingFrames(n, pk, bl, kind, t0) ==
    [f \in 1 .. n |->
        Frame(t0 + (f - 1) * TsPerFrame,
              IF kind = "gap" /\ f - 1 = bl + 1 THEN EmptyLandmarks
              ELSE [FullLandmarks EXCEPT !.rwr = Pt(WristX(f - 1, pk, bl, kind), 450)])]

\* A swing of 100 frames: the wrist moves 0.01 a frame up to step 39, ramps
\* over steps 40-44 to a step of 1.0 at 45, ramps down over steps 46-49 and
\* moves 0.01 a frame from step 50 on.  The ramps are linear or bent either
\* way; a bent ramp's outermost step can be below the activity threshold.
RampUps == {<<175, 340, 505, 670, 835>>, <<20, 90, 200, 400, 700>>, <<60, 80, 300, 600, 900>>}
RampDowns == {<<802, 604, 406, 208>>, <<700, 400, 200, 80>>, <<500, 200, 90, 60>>}

RampStep(k, up, down) ==
    IF k < 40 THEN 10
    ELSE IF k < 45 THEN up[k - 39]
    ELSE IF k = 45 THEN 1000
    ELSE IF k < 50 THEN down[k - 45]
    ELSE 10

RampX(up, down) ==
    LET x[f \in 0 .. 99] == IF f = 0 THEN 0 ELSE x[f - 1] + RampStep(f - 1, up, down)
    IN  x

RampFrames(up, down, t0) ==
    LET x == RampX(up, down)
    IN  [f \in 1 .. 100 |->
            Frame(t0 + (f - 1) * TsPerFrame, [FullLandmarks EXCEPT !.rwr = Pt(x[f - 1], 450)])]

InitPureRest ==
    /\ pc = "input"
    /\ scan = NoScan
    /\ interval = [start |-> 0, end |-> 0]
    /\ metrics = None
    /\ calls = <<>>

InitInterval ==
    /\ \/ \E n \in 0 .. MaxFrames, t0 \in {0, FirstTs} :
              frames = SwingFrames(n, 0, 0, "still", t0)
       \/ \E n \in 3 .. MaxFrames, t0 \in {0, FirstTs}, kind \in BlipKinds \ {"still"} :
              \E pk \in 0 .. n - 2 :
                  \E bl \in (Max(0, pk - BlipSpan) .. Min(n - 2, pk + BlipSpan)) \ {pk} :
                      frames = SwingFrames(n, pk, bl, kind, t0)
       \/ \E t0 \in {0, FirstTs}, kind \in BlipKinds \ {"still"} :
              \E pk \in (0 .. 2) \cup (LongFrames - 4 .. LongFrames - 2) :
                  \E bl \in (Max(0, pk - BlipSpan) .. Min(LongFrames - 2, pk + BlipSpan)) \ {pk} :
                      frames = SwingFrames(LongFrames, pk, bl, kind, t0)
       \/ \E t0 \in {0, FirstTs}, up \in RampUps, down \in RampDowns :
              frames = RampFrames(up, down, t0)
    /\ InitPureRest
    /\ InitSweepIdle

DetectSwingInterval ==
    /\ pc = "input"
    /\ scan' = ScanOf(frames)
    /\ interval' = IntervalOf(frames, scan')
    /\ pc' = "done"
    /\ UNCHANGED <<frames, metrics, calls>>
    /\ UNCHANGED sweepVars

NextInterval == DetectSwingInterval

SpecInterval == InitInterval /\ [][NextInterval]_vars

(***************************************************************************)
(* analyzeSwing                                                            *)
(***************************************************************************)
\* Math.round(num / den), den > 0
Round(num, den) == (2 * num + den) \div (2 * den)

CoordScale == 1000
pixelToCm == 200

\* Math.atan2(y, x) * (180 / Math.PI) in 1/10 degree, on the eight compass
\* directions (and atan2(0, 0) = 0); the model's bodies lean by these only.
Atan2Tenths(y, x) ==
    CASE y = 0 /\ x >= 0 -> 0
      [] y = 0 /\ x < 0 -> 1800
      [] x = 0 /\ y > 0 -> 900
      [] x = 0 /\ y < 0 -> -900
      [] x > 0 /\ y = x -> 450
      [] x > 0 /\ y = -x -> -450
      [] x < 0 /\ y = -x -> 1350
      [] x < 0 /\ y = x -> -1350

\* twice the midpoints, so that no halving is needed: atan2 ignores the scale
calculateSpineAngle(lm) ==
    IF lm.len < 25 THEN 0
    ELSE LET dx == (lm.lsh.x + lm.rsh.x) - (lm.lhip.x + lm.rhip.x)
             dy == (lm.lhip.y + lm.rhip.y) - (lm.lsh.y + lm.rsh.y)
         IN  Atan2Tenths(dx, dy)

calculateHeadPosition(lm) ==
    IF lm.len < 1 THEN Pt(0, 0) ELSE Pt(lm.nose.x, lm.nose.y)

calculateHeadMovement(initialLandmarks, currentLandmarks) ==
    LET initial == calculateHeadPosition(initialLandmarks)
        current == calculateHeadPosition(currentLandmarks)
    IN  [lateral |-> Abs(current.x - initial.x), vertical |-> Abs(current.y - initial.y)]

\* line 207 without the filtered set: always the full sequence
AnalysisFramesUnfiltered(fs) ==
    fs

AnalysisFrames(fs) ==
    LET iv == detectSwingInterval(fs)
        swingFrames == SelectSeq(fs, LAMBDA f : f.timestamp >= iv.start /\ f.timestamp <= iv.end)
    IN  IF Len(swingFrames) > 5 THEN swingFrames ELSE fs

ArmDistance(lm) ==
    (lm.lwr.x - lm.lsh.x) * (lm.lwr.x - lm.lsh.x) + (lm.lwr.y - lm.lsh.y) * (lm.lwr.y - lm.lsh.y)

\* line 230 with >= for >: the latest of the farthest frames
RECURSIVE ImpactScanLatest(_, _, _, _)
ImpactScanLatest(afs, i, maxArmDistance, impactFrameIndex) ==
    IF i >= Len(afs) THEN impactFrameIndex
    ELSE IF afs[i + 1].landmarks.len < 25 THEN ImpactScanLatest(afs, i + 1, maxArmDistance, impactFrameIndex)
    ELSE IF ArmDistance(afs[i + 1].landmarks) >= maxArmDistance
         THEN ImpactScanLatest(afs, i + 1, ArmDistance(afs[i + 1].landmarks), i)
    ELSE ImpactScanLatest(afs, i + 1, maxArmDistance, impactFrameIndex)

\* the loop of lines 217-236, i 0-based; distances are compared squared
RECURSIVE ImpactScan(_, _, _, _)
ImpactScan(afs, i, maxArmDistance, impactFrameIndex) ==
    IF i >= Len(afs) THEN impactFrameIndex
    ELSE IF afs[i + 1].landmarks.len < 25 THEN ImpactScan(afs, i + 1, maxArmDistance, impactFrameIndex)
    ELSE IF ArmDistance(afs[i + 1].landmarks) > maxArmDistance
         THEN ImpactScan(afs, i + 1, ArmDistance(afs[i + 1].landmarks), i)
    ELSE ImpactScan(afs, i + 1, maxArmDistance, impactFrameIndex)

RECURSIVE HeadScan(_, _, _, _)
HeadScan(afs, i, maxLateralMovement, maxVerticalMovement) ==
    IF i > Len(afs) THEN [lateral |-> maxLateralMovement, vertical |-> maxVerticalMovement]
    ELSE LET movement == calculateHeadMovement(afs[1].landmarks, afs[i].landmarks)
         IN  HeadScan(afs, i + 1, Max(maxLateralMovement, movement.lateral),
                      Max(maxVerticalMovement, movement.vertical))

\* lines 244-245 hoisted to module level: the two maxima start from what the
\* previous call left (its reported movement, back in coordinate units)
analyzeSwingStateful(fs) ==
    IF Len(fs) < 2 THEN None
    ELSE LET afs == AnalysisFrames(fs)
             addressFrame == afs[1]
             impactFrame == afs[ImpactScan(afs, 0, 0, 0) + 1]
             addressSpineAngle == calculateSpineAngle(addressFrame.landmarks)
             impactSpineAngle == calculateSpineAngle(impactFrame.landmarks)
             left == IF metrics = None THEN [lateral |-> 0, vertical |-> 0]
                     ELSE metrics.headMovement
             head == HeadScan(afs, 1, (left.lateral * CoordScale) \div (pixelToCm * 10),
                              (left.vertical * CoordScale) \div (pixelToCm * 10))
         IN  [spineAngle |-> [address |-> addressSpineAngle,
                              impact |-> impactSpineAngle,
                              change |-> impactSpineAngle - addressSpineAngle],
              headMovement |->
                  [lateral |-> Round(head.lateral * pixelToCm * 10, CoordScale),
                   vertical |-> Round(head.vertical * pixelToCm * 10, CoordScale)],
              swingInterval |-> detectSwingInterval(fs)]

analyzeSwing(fs) ==
    IF Len(fs) < 2 THEN None
    ELSE LET afs == AnalysisFrames(fs)
             addressFrame == afs[1]
             impactFrame == afs[ImpactScan(afs, 0, 0, 0) + 1]
             addressSpineAngle == calculateSpineAngle(addressFrame.landmarks)
             impactSpineAngle == calculateSpineAngle(impactFrame.landmarks)
             head == HeadScan(afs, 1, 0, 0)
         IN  [spineAngle |-> [address |-> addressSpineAngle,
                              impact |-> impactSpineAngle,
                              change |-> impactSpineAngle - addressSpineAngle],
              headMovement |->
                  [lateral |-> Round(head.lateral * pixelToCm * 10, CoordScale),
                   vertical |-> Round(head.vertical * pixelToCm * 10, CoordScale)],
              swingInterval |-> detectSwingInterval(fs)]

(***************************************************************************)
(* Inputs of analyzeSwing: short sequences in which each frame either has  *)
(* no landmarks (no body was detected) or a full body in one of a few      *)
(* postures: upright with the nose at one of a few places, or leaning with *)
(* the left arm stretched or tucked (wrist on the shoulder); and sequences *)
(* of MaxFrames frames with a swing in the middle, in whose first frame    *)
(* the golfer may still be settling (leaning, head elsewhere).             *)
(***************************************************************************)
NosePlaces == {Pt(500, 200), Pt(530, 200), Pt(500, 260)}

Lean45 == [FullLandmarks EXCEPT !.lsh = Pt(820, 300), !.rsh = Pt(780, 300), !.lwr = Pt(820, 500)]
Lean90 == [FullLandmarks EXCEPT !.lsh = Pt(820, 600), !.rsh = Pt(780, 600), !.lwr = Pt(820, 800)]
Tucked == [FullLandmarks EXCEPT !.lsh = Pt(820, 300), !.rsh = Pt(780, 300), !.lwr = Pt(820, 300)]

MetricLandmarks ==
    {EmptyLandmarks} \cup {[FullLandmarks EXCEPT !.nose = p] : p \in NosePlaces}
        \cup {Lean45, Lean90, Tucked}

Settling(fs) ==
    [fs EXCEPT ![1].landmarks = [@ EXCEPT !.nose = Pt(530, 260), !.lsh = Lean45.lsh,
                                          !.rsh = Lean45.rsh, !.lwr = Lean45.lwr]]

InitMetrics ==
    /\ \/ \E n \in 1 .. MaxMetricFrames, t0 \in {0, FirstTs} :
              \E lms \in [1 .. n -> MetricLandmarks] :
                  frames = [f \in 1 .. n |-> Frame(t0 + (f - 1) * TsPerFrame, lms[f])]
       \/ \E t0 \in {0, FirstTs}, kind \in {"low", "over", "gap"},
             pk \in MaxFrames \div 2 .. MaxFrames \div 2 + 2 :
              \/ frames = SwingFrames(MaxFrames, pk, pk + 1, kind, t0)
              \/ frames = Settling(SwingFrames(MaxFrames, pk, pk + 1, kind, t0))
    /\ InitPureRest
    /\ InitSweepIdle

AnalyzeSwing ==
    /\ pc = "input"
    /\ metrics' = analyzeSwing(frames)
    /\ scan' = ScanOf(frames)
    /\ interval' = detectSwingInterval(frames)
    /\ calls' = Append(calls, [frames |-> frames, metrics |-> metrics'])
    /\ pc' = "done"
    /\ UNCHANGED frames
    /\ UNCHANGED sweepVars

\* a further call, on the same list or on the list without its first frame
\* (another recording, with another address frame)
AnalyzeSwingAgain ==
    /\ pc \in {"done", "again"}
    /\ Len(calls) < MaxCalls
    /\ \E fs \in {frames, Tail(frames)} :
           /\ metrics' = analyzeSwing(fs)
           /\ scan' = ScanOf(fs)
           /\ interval' = detectSwingInterval(fs)
           /\ calls' = Append(calls, [frames |-> fs, metrics |-> metrics'])
    /\ pc' = "again"
    /\ UNCHANGED frames
    /\ UNCHANGED sweepVars

NextMetrics == AnalyzeSwing \/ AnalyzeSwingAgain

SpecMetrics == InitMetrics /\ [][NextMetrics]_vars


(***************************************************************************)
(* clubDetection: computePCA, processMask, processShaftFallback, detectClub *)
(*                                                                         *)
(* The inference engine is a black box: what it returns for a frame is an  *)
(* input, given as the best head-class and shaft-class candidates and, for *)
(* the head, the pixels of its box whose mask value passes MASK_THRESHOLD. *)
(* The video is MODEL_INPUT_SIZE square, so the letterbox scale is 1 and   *)
(* the paddings are 0.  Pixel coordinates are multiples of 8 and masks are *)
(* straight runs of pixels, which keeps means, normalized points and the   *)
(* angles (multiples of 45 degrees) exact.                                 *)
(***************************************************************************)
MODEL_INPUT_SIZE == 320
SMOOTHING_TENTHS == 3
AngleUnit == 10 ^ MaxSmooth          \* units per degree
Deg(d) == d * AngleUnit
FromTenths(t) == t * (AngleUnit \div 10)

\* the sum of f over the points S
RECURSIVE SumOver(_, _)
SumOver(S, f) ==
    IF S = {} THEN 0
    ELSE LET e == CHOOSE x \in S : TRUE IN f[e] + SumOver(S \ {e}, f)

computePCA(points) ==
    IF points = {} THEN [angle |-> 0, center |-> Pt(0, 0)]
    ELSE LET n == Cardinality(points)
             meanX == SumOver(points, [q \in points |-> q.x]) \div n
             meanY == SumOver(points, [q \in points |-> q.y]) \div n
             xx == SumOver(points, [q \in points |-> (q.x - meanX) * (q.x - meanX)])
             xy == SumOver(points, [q \in points |-> (q.x - meanX) * (q.y - meanY)])
             yy == SumOver(points, [q \in points |-> (q.y - meanY) * (q.y - meanY)])
         IN  [angle |-> FromTenths(Atan2Tenths(2 * xy, xx - yy)) \div 2,
              center |-> Pt(meanX, meanY)]

\* video dimensions; the hands' midpoint in video pixels
videoW == MODEL_INPUT_SIZE
videoH == MODEL_INPUT_SIZE
HandsMid(lm) ==
    Pt(((lm.lwr.x + lm.rwr.x) * videoW) \div (2 * CoordScale),
       ((lm.lwr.y + lm.rwr.y) * videoH) \div (2 * CoordScale))

\* a video pixel as a normalized point
Normalized(q) == Pt((q.x * CoordScale) \div videoW, (q.y * CoordScale) \div videoH)

Wrap(a) ==
    IF a > Deg(180) THEN a - Deg(360)
    ELSE IF a < -Deg(180) THEN a + Deg(360)
    ELSE a

\* line 372 with >= for >: an axis square to the hands' direction is rotated
DisambiguateSquare(rawAngle, vecAngle) ==
    LET diff0 == Abs(rawAngle - vecAngle)
        diff == IF diff0 > Deg(180) THEN Deg(360) - diff0 ELSE diff0
    IN  Wrap(IF diff >= Deg(90) THEN rawAngle + Deg(180) ELSE rawAngle)

\* lines 362-375: orientation correction with the hands
Disambiguate(rawAngle, vecAngle) ==
    LET diff0 == Abs(rawAngle - vecAngle)
        diff == IF diff0 > Deg(180) THEN Deg(360) - diff0 ELSE diff0
    IN  Wrap(IF diff > Deg(90) THEN rawAngle + Deg(180) ELSE rawAngle)

\* lines 377-387: the blend, left out (the new angle replaces the old one)
SmoothNone(finalAngle, last) == finalAngle

\* lines 377-387: the delta taken as it is, not across the wraparound
SmoothNoWrap(finalAngle, last) ==
    IF last = None THEN finalAngle
    ELSE Wrap(last.v + (SMOOTHING_TENTHS * (finalAngle - last.v)) \div 10)

\* lines 377-387: the old angle given the new sample's weight
SmoothSwapped(finalAngle, last) ==
    IF last = None THEN finalAngle
    ELSE Wrap(last.v + ((10 - SMOOTHING_TENTHS) * Wrap(finalAngle - last.v)) \div 10)

\* lines 377-387 without the normalisation of lines 385-386
SmoothUnwrapped(finalAngle, last) ==
    IF last = None THEN finalAngle
    ELSE last.v + (SMOOTHING_TENTHS * Wrap(finalAngle - last.v)) \div 10

\* lines 377-387: exponential moving average across the wraparound
Smooth(finalAngle, last) ==
    IF last = None THEN finalAngle
    ELSE Wrap(last.v + (SMOOTHING_TENTHS * Wrap(finalAngle - last.v)) \div 10)

Estimate(angle, score, point) == [angle |-> angle, score |-> score, debugPoint |-> point]

\* What a resolver call hands back: the ClubData or None, the module's
\* lastAngle afterwards, and which path produced it with the disambiguated
\* angle before smoothing.
Resolved(club, last, path, raw) == [club |-> club, last |-> last, path |-> path, raw |-> raw]

BoxEmpty(b) ==
    \/ Min(MODEL_INPUT_SIZE, b.x2) <= Max(0, b.x1)
    \/ Min(MODEL_INPUT_SIZE, b.y2) <= Max(0, b.y1)

\* the mask test of line 352 left out: any mask goes on to the PCA
MaskTooSmallNever(maskPixels) == FALSE

MaskTooSmall(maskPixels) == Cardinality(maskPixels) < 3

\* the landmark guard of lines 231 and 334 left out
WristsMissingNever(lm) == FALSE

WristsMissing(lm) == lm.len <= 16

processMask(detection, lm, last) ==
    IF BoxEmpty(detection.box) THEN Resolved(None, last, "none", 0)
    ELSE IF WristsMissing(lm) THEN Resolved(None, last, "none", 0)
    ELSE IF MaskTooSmall(detection.mask) THEN Resolved(None, last, "none", 0)
    ELSE LET pca == computePCA(detection.mask)
             h == HandsMid(lm)
             vecAngle == FromTenths(Atan2Tenths(pca.center.y - h.y, pca.center.x - h.x))
             raw == Disambiguate(pca.angle, vecAngle)
             finalAngle == Smooth(raw, last)
         IN  Resolved(Estimate(finalAngle, detection.score, Normalized(pca.center)),
                      [v |-> finalAngle], "head", raw)

Corners(b) == <<Pt(b.x1, b.y1), Pt(b.x2, b.y1), Pt(b.x2, b.y2), Pt(b.x1, b.y2)>>

DistSq(q, h) == (q.x - h.x) * (q.x - h.x) + (q.y - h.y) * (q.y - h.y)

\* lines 251-261 with the loop left out: the first corner stays
FurthestCornerFirst(corners, h, i, maxDist, furthest) == furthest

\* lines 251-261; maxDist starts at -1, so the first corner always replaces it
RECURSIVE FurthestCorner(_, _, _, _, _)
FurthestCorner(corners, h, i, maxDist, furthest) ==
    IF i > Len(corners) THEN furthest
    ELSE IF maxDist < 0 \/ DistSq(corners[i], h) > maxDist
         THEN FurthestCorner(corners, h, i + 1, DistSq(corners[i], h), corners[i])
    ELSE FurthestCorner(corners, h, i + 1, maxDist, furthest)

\* lines 263-275 followed by the blend of lines 377-388: the shaft angle is
\* smoothed against the last angle and stored as the new one
processShaftFallbackSmoothed(detection, lm, last) ==
    IF WristsMissing(lm) THEN Resolved(None, last, "none", 0)
    ELSE LET h == HandsMid(lm)
             corners == Corners(detection.box)
             c == FurthestCorner(corners, h, 1, -1, corners[1])
             angle == FromTenths(Atan2Tenths(c.y - h.y, c.x - h.x))
             finalAngle == Smooth(angle, last)
         IN  Resolved(Estimate(finalAngle, (detection.score * 8) \div 10, Normalized(c)),
                      [v |-> finalAngle], "shaft", angle)

processShaftFallback(detection, lm, last) ==
    IF WristsMissing(lm) THEN Resolved(None, last, "none", 0)
    ELSE LET h == HandsMid(lm)
             corners == Corners(detection.box)
             c == FurthestCorner(corners, h, 1, -1, corners[1])
             angle == FromTenths(Atan2Tenths(c.y - h.y, c.x - h.x))
         IN  Resolved(Estimate(angle, (detection.score * 8) \div 10, Normalized(c)),
                      last, "shaft", angle)

\* lines 191-214 with the fall-through of lines 198-204 left out: a head
\* detection's result is returned even when it is null
ResolveHeadOnly(head, shaft, lm, last) ==
    IF head # None THEN processMask(head, lm, last)
    ELSE IF shaft # None THEN processShaftFallback(shaft, lm, last)
    ELSE Resolved(None, last, "none", 0)

\* lines 191-214 with a zero-filled estimate for the null of line 214
ResolveZeroFilled(head, shaft, lm, last) ==
    LET headResult == IF head # None THEN processMask(head, lm, last)
                      ELSE Resolved(None, last, "none", 0)
    IN  IF headResult.club # None THEN headResult
        ELSE IF shaft # None THEN processShaftFallback(shaft, lm, last)
        ELSE Resolved(Estimate(0, 0, Pt(0, 0)), last, "none", 0)

\* lines 191-214: head first, then the shaft fallback, then nothing
Resolve(head, shaft, lm, last) ==
    LET headResult == IF head # None THEN processMask(head, lm, last)
                      ELSE Resolved(None, last, "none", 0)
    IN  IF headResult.club # None THEN headResult
        ELSE IF shaft # None THEN processShaftFallback(shaft, lm, last)
        ELSE Resolved(None, last, "none", 0)

(***************************************************************************)
(* What the inference engine can return for a frame.                       *)
(***************************************************************************)
Box(x1, y1, x2, y2) == [x1 |-> x1, y1 |-> y1, x2 |-> x2, y2 |-> y2]

Run3(x, y, dx, dy) == {Pt(x, y), Pt(x + dx, y + dy), Pt(x + 2 * dx, y + 2 * dy)}

HeadScore == 500
ShaftScore == 600

\* heads to the left of and above the hands; a mask of 2 pixels; an empty box
SweepHeadDetections ==
    { [score |-> HeadScore, box |-> Box(120, 152, 160, 168), mask |-> Run3(136, 160, 8, 0)],
      [score |-> HeadScore, box |-> Box(152, 120, 168, 160), mask |-> Run3(160, 136, 0, 8)],
      [score |-> HeadScore, box |-> Box(160, 152, 200, 168), mask |-> {Pt(168, 160), Pt(176, 160)}],
      [score |-> HeadScore, box |-> Box(160, 152, 160, 168), mask |-> {}] }

\* and a head to the right of the hands, and one straight above them whose
\* mask lies across
HeadDetections ==
    SweepHeadDetections \cup
    { [score |-> HeadScore, box |-> Box(160, 152, 200, 168), mask |-> Run3(168, 160, 8, 0)],
      [score |-> HeadScore, box |-> Box(140, 128, 180, 144), mask |-> Run3(152, 136, 8, 0)] }

ShaftDetections ==
    { [score |-> ShaftScore, box |-> Box(160, 160, 200, 200)] }

\* landmarks the pose source supplies during a sweep: none, a list too short
\* for the wrists, or a full body with both wrists at the centre of the frame
SweepFull == [FullLandmarks EXCEPT !.lwr = Pt(500, 500), !.rwr = Pt(500, 500)]
SweepShort == [SweepFull EXCEPT !.len = 16]

(***************************************************************************)
(* ReviewPage: loadSession and runPostAnalysis.  Each step below is one    *)
(* stretch of code between two awaits, so two sessions' sweeps interleave  *)
(* exactly where the event loop can interleave them.                       *)
(***************************************************************************)
\* an imported video: no pose frames yet (HomePage)
Imported == {Stored(<<>>, n) : n \in 1 .. MaxSweepFrames}

\* a recording: one pose frame per camera frame that had landmarks (RecordPage)
Recorded ==
    UNION { { Stored([f \in 1 .. n |-> Frame(FirstTs + (f - 1) * TsPerFrame, lms[f])], n) :
                lms \in [1 .. n -> {SweepFull}] }
            : n \in 1 .. MaxSweepFrames }

\* session "a" was recorded, session "b" imported
Init ==
    /\ store \in {st \in [Sessions -> Imported \cup Recorded] :
                      st["a"] \in Recorded /\ st["b"] \in Imported}
    /\ InitSweepRest
    /\ frames = <<>>
    /\ InitPureRest

Sweeping(r) == r.pc \in {"setup", "seek", "init", "infer"}

\* lines 104-164
LoadSession(s) ==
    /\ loads < MaxLoads
    /\ ~Sweeping(run[s])
    /\ loads' = loads + 1
    /\ LET loaded == store[s]
           needsPoseAnalysis == Len(loaded.poseFrames) = 0
           needsClubAnalysis ==
               Len(loaded.poseFrames) > 0 /\ loaded.poseFrames[1].club = None
       IN  IF needsPoseAnalysis \/ needsClubAnalysis
           THEN /\ run' = [run EXCEPT ![s] =
                      [IdleRun EXCEPT !.pc = "setup",
                                      !.doPose = needsPoseAnalysis,
                                      !.doClub = needsClubAnalysis \/ needsPoseAnalysis,
                                      !.frames = IF needsPoseAnalysis THEN <<>>
                                                 ELSE loaded.poseFrames]]
                /\ page' = [page EXCEPT !.sessionId = [id |-> s], !.isAnalyzing = TRUE]
           ELSE /\ run' = [run EXCEPT ![s] =
                      [IdleRun EXCEPT !.pc = "done", !.frames = loaded.poseFrames]]
                /\ page' = [page EXCEPT !.sessionId = [id |-> s],
                                        !.metrics = analyzeSwing(loaded.poseFrames)]
    /\ UNCHANGED <<inferenceSession, isLoading, lastAngle, store, blends, lastBy, streak, call>>
    /\ UNCHANGED pureVars

\* the catch of lines 299-303
Failed(r, why) == [r EXCEPT !.pc = "failed", !.cur = None, !.why = why]
PageFailed == [page EXCEPT !.error = TRUE, !.isAnalyzing = FALSE]

\* lines 202-229: the pose landmarker (when poses are needed) and the video
Setup(s) ==
    /\ run[s].pc = "setup"
    /\ run' = [run EXCEPT ![s].pc = "seek"]
    /\ UNCHANGED <<inferenceSession, isLoading, lastAngle, store, page, loads, blends,
                   lastBy, streak, call>>
    /\ UNCHANGED pureVars

\* lines 205-215 throw: the landmarker cannot be created
SetupFails(s) ==
    /\ run[s].pc = "setup"
    /\ run[s].doPose
    /\ run' = [run EXCEPT ![s] = Failed(@, "setup")]
    /\ page' = PageFailed
    /\ UNCHANGED <<inferenceSession, isLoading, lastAngle, store, loads, blends, lastBy, streak, call>>
    /\ UNCHANGED pureVars

TotalFrames(s) == IF run[s].doPose THEN store[s].nVideo ELSE Len(run[s].frames)

OthersSweeping(s) == \E t \in Sessions \ {s} : Sweeping(run[t])

\* history of one frame: the path it took and, for the head path (the only
\* one that reads lastAngle), what it read and who had written it
Entry(s, path, raw) ==
    IF path = "head"
    THEN [path |-> path, raw |-> raw, prev |-> lastAngle, prevBy |-> lastBy,
          others |-> OthersSweeping(s)]
    ELSE [path |-> path, raw |-> 0, prev |-> None, prevBy |-> None, others |-> FALSE]

\* lines 253-260 and 271-275: attach the estimate if there is one, keep the
\* frame, go on to the next frame
Advance(r, frame, club, entry) ==
    LET done == IF club # None THEN [frame EXCEPT !.club = club] ELSE frame
    IN  [r EXCEPT !.pc = "seek",
                  !.i = @ + 1,
                  !.cur = None,
                  !.frames = IF r.doPose THEN Append(@, done)
                             ELSE [@ EXCEPT ![r.i + 1] = done],
                  !.trace = Append(@, entry)]

\* the exception escapes: detectClub without its try/catch
PreprocessUncaught(s, frame, throws) ==
    IF throws
    THEN run' = [run EXCEPT ![s] = Failed(@, "threw")]
    ELSE run' = [run EXCEPT ![s].pc = "infer", ![s].cur = frame]

\* the call of lines 252 and 271 not awaited: the loop goes on to the next
\* frame while this frame's detection is still in flight
PreprocessNotAwaited(s, frame, throws) ==
    IF throws
    THEN run' = [run EXCEPT ![s] = Advance(@, frame, None, Entry(s, "threw", 0))]
    ELSE run' = [run EXCEPT ![s].pc = "infer", ![s].cur = frame, ![s].i = @ + 1]

\* lines 132-133: preprocess; an exception is caught at line 216
Preprocess(s, frame, throws) ==
    IF throws
    THEN run' = [run EXCEPT ![s] = Advance(@, frame, None, Entry(s, "threw", 0))]
    ELSE run' = [run EXCEPT ![s].pc = "infer", ![s].cur = frame]

\* lines 117-133: detectClub up to its first await
EnterDetectClub(s, frame) ==
    IF inferenceSession = "null"
    THEN IF isLoading
         THEN /\ run' = [run EXCEPT ![s] = Advance(@, frame, None, Entry(s, "loading", 0))]
              /\ UNCHANGED isLoading
         ELSE /\ isLoading' = TRUE
              /\ run' = [run EXCEPT ![s].pc = "init", ![s].cur = frame]
    ELSE /\ \E throws \in BOOLEAN : Preprocess(s, frame, throws)
         /\ UNCHANGED isLoading

\* lines 236-257 and 264-275: seek to the frame, take its landmarks, call detectClub
Seek(s) ==
    /\ run[s].pc = "seek"
    /\ run[s].i < TotalFrames(s)
    /\ \E frame \in IF run[s].doPose
                    THEN {Frame(run[s].i * TsPerFrame, lm) :
                             lm \in {EmptyLandmarks, SweepShort, SweepFull}}
                    ELSE {run[s].frames[run[s].i + 1]} :
           IF run[s].doClub /\ frame.landmarks.len > 0
           THEN EnterDetectClub(s, frame)
           ELSE /\ run' = [run EXCEPT ![s] =
                      Advance(@, frame, None, Entry(s, "nolandmarks", 0))]
                /\ UNCHANGED isLoading
    /\ UNCHANGED <<inferenceSession, lastAngle, store, page, loads, blends, lastBy, streak, call>>
    /\ UNCHANGED pureVars

\* lines 54-62 and 127-133: InferenceSession.create resolves
InitSessionDone(s) ==
    /\ run[s].pc = "init"
    /\ inferenceSession' = "loaded"
    /\ isLoading' = FALSE
    /\ \E throws \in BOOLEAN : Preprocess(s, run[s].cur, throws)
    /\ UNCHANGED <<lastAngle, store, page, loads, blends, lastBy, streak, call>>
    /\ UNCHANGED pureVars

\* lines 57-62: InferenceSession.create rejects; initSession rethrows, and the
\* await of line 125 is outside detectClub's try, so runPostAnalysis catches it
InitSessionFails(s) ==
    /\ run[s].pc = "init"
    /\ isLoading' = FALSE
    /\ run' = [run EXCEPT ![s] = Failed(@, "init")]
    /\ page' = PageFailed
    /\ UNCHANGED <<inferenceSession, lastAngle, store, loads, blends, lastBy, streak, call>>
    /\ UNCHANGED pureVars

Blended(r, last) == r.path = "head" /\ last # None

StreakAfter(r) ==
    IF r.path # "head" THEN streak
    ELSE IF streak.n > 0 /\ streak.raw = r.raw THEN [streak EXCEPT !.n = @ + 1]
    ELSE [raw |-> r.raw, n |-> 1]

\* history: which way the call went; lines 192 and 207 both found nothing
\* when neither class has a detection above the confidence threshold
PathOf(head, shaft, r) ==
    IF head = None /\ shaft = None THEN "nodetection" ELSE r.path

\* lines 136-219: inferenceSession.run resolves or rejects, and the result is resolved
Infer(s) ==
    /\ run[s].pc = "infer"
    /\ \/ /\ run' = [run EXCEPT ![s] = Advance(@, run[s].cur, None, Entry(s, "threw", 0))]
          /\ UNCHANGED <<lastAngle, blends, lastBy, streak, call>>
       \/ \E head \in SweepHeadDetections \cup {None}, shaft \in ShaftDetections \cup {None} :
              LET r == Resolve(head, shaft, run[s].cur.landmarks, lastAngle)
              IN  /\ Blended(r, lastAngle) => blends < MaxSweepBlends
                  /\ lastAngle' = r.last
                  /\ blends' = IF Blended(r, lastAngle) THEN blends + 1 ELSE blends
                  /\ lastBy' = IF r.path = "head" THEN [id |-> s] ELSE lastBy
                  /\ streak' = StreakAfter(r)
                  /\ run' = [run EXCEPT ![s] =
                         Advance(@, run[s].cur, r.club,
                                 Entry(s, PathOf(head, shaft, r), r.raw))]
    /\ UNCHANGED <<inferenceSession, isLoading, store, page, loads, call>>
    /\ UNCHANGED pureVars

\* lines 278-297: the metrics, the save, the page's state
Finish(s) ==
    /\ run[s].pc = "seek"
    /\ run[s].i = TotalFrames(s)
    /\ LET m == analyzeSwing(run[s].frames)
       IN  /\ run' = [run EXCEPT ![s].pc = "done", ![s].metrics = m]
           /\ page' = [page EXCEPT !.metrics = m, !.isAnalyzing = FALSE]
    /\ store' = [store EXCEPT ![s].poseFrames = run[s].frames]
    /\ UNCHANGED <<inferenceSession, isLoading, lastAngle, loads, blends, lastBy, streak, call>>
    /\ UNCHANGED pureVars

Next ==
    \E s \in Sessions :
        \/ LoadSession(s)
        \/ Setup(s)
        \/ SetupFails(s)
        \/ Seek(s)
        \/ InitSessionDone(s)
        \/ InitSessionFails(s)
        \/ Infer(s)
        \/ Finish(s)

Spec == Init /\ [][Next]_vars

(***************************************************************************)
(* detectClub's resolver on its own, frame after frame.  Each step is      *)
(* lines 191-214 for one frame, on what the inference engine returned for  *)
(* it and on the landmarks the caller passed.                              *)
(***************************************************************************)
InitDetect ==
    /\ InitSweepIdle
    /\ frames = <<>>
    /\ InitPureRest

DetectClubResolve ==
    /\ \E head \in HeadDetections \cup {None}, shaft \in ShaftDetections \cup {None},
          lm \in {SweepShort, SweepFull} :
           LET r == Resolve(head, shaft, lm, lastAngle)
           IN  /\ Blended(r, lastAngle) => blends < MaxSmooth
               /\ lastAngle' = r.last
               /\ blends' = IF Blended(r, lastAngle) THEN blends + 1 ELSE blends
               /\ streak' = StreakAfter(r)
               /\ call' = [head |-> head, shaft |-> shaft, landmarks |-> lm,
                           prev |-> lastAngle, path |-> r.path, raw |-> r.raw,
                           club |-> r.club]
    /\ UNCHANGED <<inferenceSession, isLoading, store, run, page, loads, lastBy>>
    /\ UNCHANGED pureVars

NextDetect == DetectClubResolve

SpecDetect == InitDetect /\ [][NextDetect]_vars

(***************************************************************************)
(* detectClub from the engine's first output on: the scan of the anchors   *)
(* (lines 138-189) followed by the resolver.  An anchor is a column of     *)
(* output0: centre and size of its box, one score per class, and its mask  *)
(* coefficients, which stand here as the mask they yield.  Scores are in   *)
(* 1/1000.                                                                 *)
(***************************************************************************)
CONFIDENCE_THRESHOLD == 200

MaxAnchors == 3

AnchorScores == {100, 200, 300, 500}

\* anchor i (0-based), each with a box and a mask of its own.  The hands are
\* at (160, 160): the box's furthest corner is its top-left one, or its
\* bottom-left one, or the box is centred on the hands and all four corners
\* are equally far; the mask lies to the left of the hands.
AnchorBox(i) ==
    CASE i % 3 = 0 -> [cx |-> 140, cy |-> 140, w |-> 40, h |-> 40]
      [] i % 3 = 1 -> [cx |-> 140, cy |-> 180, w |-> 40, h |-> 40]
      [] OTHER -> [cx |-> 160, cy |-> 160, w |-> 80, h |-> 80]

Anchor(i, s0, s1) ==
    [cx |-> AnchorBox(i).cx, cy |-> AnchorBox(i).cy, w |-> AnchorBox(i).w,
     h |-> AnchorBox(i).h, cls |-> <<s0, s1>>, mask |-> Run3(136 - 8 * i, 160, 8, 0)]

AnchorLists ==
    UNION {[1 .. n -> AnchorScores \X AnchorScores] : n \in 1 .. MaxAnchors}

\* lines 162-183: the entry stored for class c from anchor i
Detection(a, i, val) ==
    [score |-> val,
     box |-> Box(a.cx - a.w \div 2, a.cy - a.h \div 2, a.cx + a.w \div 2, a.cy + a.h \div 2),
     index |-> i, mask |-> a.mask]

\* line 159 with >= for >: a later anchor of equal score replaces the entry
ConsiderLatest(currentBest, a, i, c) ==
    LET val == a.cls[c + 1]
    IN  IF (currentBest = None \/ val >= currentBest.score) /\ val > CONFIDENCE_THRESHOLD
        THEN Detection(a, i, val)
        ELSE currentBest

\* lines 156-184 for one anchor and one class
Consider(currentBest, a, i, c) ==
    LET val == a.cls[c + 1]
    IN  IF (currentBest = None \/ val > currentBest.score) /\ val > CONFIDENCE_THRESHOLD
        THEN Detection(a, i, val)
        ELSE currentBest

\* the loop of lines 150-186, i 0-based; best maps each class to its entry
RECURSIVE bestDetections(_, _, _)
bestDetections(anchors, i, best) ==
    IF i >= Len(anchors) THEN best
    ELSE bestDetections(anchors, i + 1,
                        [c \in {0, 1} |-> Consider(best[c], anchors[i + 1], i, c)])

InitAnchors ==
    /\ \E scores \in AnchorLists, lm \in {SweepShort, SweepFull} :
           call = [anchors |-> [i \in 1 .. Len(scores) |->
                                   Anchor(i - 1, scores[i][1], scores[i][2])],
                   landmarks |-> lm]
    /\ store = [s \in Sessions |-> Stored(<<>>, 0)]
    /\ InitSweepCore
    /\ frames = <<>>
    /\ InitPureRest

DetectClubScan ==
    /\ pc = "input"
    /\ LET best == bestDetections(call.anchors, 0, [c \in {0, 1} |-> None])
           r == Resolve(best[1], best[0], call.landmarks, lastAngle)
       IN  /\ lastAngle' = r.last
           /\ call' = [anchors |-> call.anchors, landmarks |-> call.landmarks,
                       best |-> best, path |-> r.path, club |-> r.club]
    /\ pc' = "done"
    /\ UNCHANGED <<inferenceSession, isLoading, store, run, page, loads, blends, lastBy, streak>>
    /\ UNCHANGED <<frames, scan, interval, metrics, calls>>

NextAnchors == DetectClubScan

SpecAnchors == InitAnchors /\ [][NextAnchors]_vars

----------------------------------------------------------------------------
\* C1 (as stated): for every input of at least 10 frames the final index pair
\* satisfies endIndex - startIndex >= 30 after the safety check.
C1_MinWindowFrom10 ==
    (pc = "done" /\ Len(frames) >= 10) => scan.endIndex - scan.startIndex >= 30

\* C1 (amended): with at least 31 frames the final pair is at least 30 apart;
\* with 10 to 30 frames the safety check always fires and the pair is the
\* whole buffer, (0, lastIndex), which is less than 30 apart.
C1_MinWindow ==
    pc = "done" =>
        /\ Len(frames) >= 31 => scan.endIndex - scan.startIndex >= 30
        /\ (Len(frames) >= 10 /\ Len(frames) <= 30) =>
               /\ scan.forced
               /\ scan.startIndex = 0
               /\ scan.endIndex = Len(frames) - 1

\* A sequence of at least 31 frames whose natural scan was under 30 frames wide
\* and was replaced by the forced window.
C1_Witness ==
    /\ pc = "done"
    /\ Len(frames) >= 31
    /\ scan.forced
    /\ scan.natEnd - scan.natStart < 30
    /\ scan.endIndex - scan.startIndex >= 30

----------------------------------------------------------------------------
\* The head movement, in 1/10 cm, that results when the frames without a nose
\* landmark are skipped: the largest displacement, from the address frame's
\* nose, of the nose over the frames that have one.
SkippingHeadMovement(afs) ==
    LET origin == afs[1].landmarks.nose
        seen == {i \in 1 .. Len(afs) : Has(afs[i].landmarks, NOSE)}
        lat == {Abs(afs[i].landmarks.nose.x - origin.x) : i \in seen}
        ver == {Abs(afs[i].landmarks.nose.y - origin.y) : i \in seen}
        top(S) == CHOOSE m \in S \cup {0} : \A v \in S : m >= v
    IN  [lateral |-> Round(top(lat) * pixelToCm * 10, CoordScale),
         vertical |-> Round(top(ver) * pixelToCm * 10, CoordScale)]

\* C4: a frame without the nose landmark does not contribute to the head
\* movement: with the address frame's nose as origin, the reported lateral
\* and vertical movement equal the values obtained with such frames skipped.
C4_MissingNoseSkipped ==
    (pc = "done" /\ metrics # None /\ Has(AnalysisFrames(frames)[1].landmarks, NOSE))
        => metrics.headMovement = SkippingHeadMovement(AnalysisFrames(frames))

----------------------------------------------------------------------------
\* The frames of session s that took the head path, in sweep order.
HeadFrames(s) == {i \in 1 .. Len(run[s].trace) : run[s].trace[i].path = "head"}

FirstHeadFrame(s, i) == i \in HeadFrames(s) /\ \A j \in HeadFrames(s) : i <= j

\* C2: when a session's sweep begins the resolver's last angle is reset, so
\* the first head-based estimate of a session is its disambiguated raw angle
\* and is not blended with an angle resolved in an earlier session.  Stated
\* for a sweep that runs with no other sweep in progress.
C2_FirstEstimateIsRaw ==
    \A s \in Sessions : \A i \in 1 .. Len(run[s].trace) :
        (FirstHeadFrame(s, i) /\ ~run[s].trace[i].others)
            => run[s].frames[i].club.angle = run[s].trace[i].raw

\* C3: a failure of the inference engine to initialise does not abort the
\* session: no sweep ends in runPostAnalysis's catch because of it, so the
\* sweep still reaches its end, where the metrics are produced.
C3_InitFailureDoesNotAbort ==
    \A s \in Sessions : ~(run[s].pc = "failed" /\ run[s].why = "init")

\* C6: a frame of a session carries a club estimate only if its landmark list
\* has the wrist and elbow entries (more than 16 entries); a frame with a
\* shorter or empty list has no club field.
C6_ClubNeedsWrists ==
    \A s \in Sessions :
        /\ \A i \in 1 .. Len(run[s].frames) :
               run[s].frames[i].landmarks.len <= RIGHT_WRIST => run[s].frames[i].club = None
        /\ \A i \in 1 .. Len(store[s].poseFrames) :
               store[s].poseFrames[i].landmarks.len <= RIGHT_WRIST
                   => store[s].poseFrames[i].club = None

\* a sweep that attached an estimate to one frame and called detectClub on a
\* frame whose landmark list stops before the wrists
C6_Witness ==
    \E s \in Sessions : \E i, j \in 1 .. Len(run[s].trace) :
        /\ run[s].frames[i].club # None
        /\ run[s].frames[j].landmarks.len = 16
        /\ run[s].trace[j].path = "none"
        /\ run[s].frames[j].club = None

\* C7: an exception raised by preprocessing or inference for one frame is
\* caught inside detectClub: no sweep is aborted by it (a sweep ends in the
\* catch of runPostAnalysis only for a failed setup or a failed
\* initialisation), and the frame is kept with no estimate from that call (in
\* a sweep that builds its frames, with no club field).
C7_FrameExceptionCaught ==
    \A s \in Sessions :
        /\ run[s].pc = "failed" => run[s].why \in {"setup", "init"}
        /\ \A i \in 1 .. Len(run[s].trace) :
               (run[s].doPose /\ run[s].trace[i].path = "threw")
                   => run[s].frames[i].club = None

\* a finished sweep in which one frame threw and a later frame was resolved
C7_Witness ==
    \E s \in Sessions : \E i, j \in 1 .. Len(run[s].trace) :
        /\ run[s].pc = "done"
        /\ i < j
        /\ run[s].trace[i].path = "threw"
        /\ run[s].frames[j].club # None

\* C8: when two sweeps run with their frames interleaved, a head-path
\* estimate of one session is never blended with a last angle written by the
\* other session.
C8_IndependentSmoothing ==
    \A s \in Sessions : \A i \in HeadFrames(s) :
        (run[s].trace[i].others /\ run[s].trace[i].prev # None)
            => run[s].trace[i].prevBy = [id |-> s]

----------------------------------------------------------------------------
MaskPixels(detection) == IF detection = None THEN 0 ELSE Cardinality(detection.mask)

HeadRejectedForSize ==
    /\ call # None
    /\ call.head # None
    /\ ~BoxEmpty(call.head.box)
    /\ MaskPixels(call.head) < 3

\* C5 (as stated): a head detection whose mask has fewer than 3 pixels sends
\* detectClub down the shaft fallback: the shaft-based estimate if a shaft
\* detection exists, no estimate otherwise, never a head-based estimate, and
\* lastAngle as it was.
C5_SmallMaskFallsBack ==
    HeadRejectedForSize =>
        /\ call.path # "head"
        /\ lastAngle = call.prev
        /\ call.shaft # None => (call.path = "shaft" /\ call.club # None)
        /\ call.shaft = None => call.club = None

\* C5: a head detection whose mask has fewer than 3 pixels sends detectClub
\* down the shaft fallback: the result is the shaft-based estimate if a shaft
\* detection exists and the landmark list has more than 16 entries, and no
\* estimate otherwise; it is never a head-based estimate, and lastAngle is
\* as it was.
C5_SmallMaskFallsBackWithWrists ==
    HeadRejectedForSize =>
        /\ call.path # "head"
        /\ lastAngle = call.prev
        /\ (call.shaft # None /\ call.landmarks.len > RIGHT_WRIST)
               => /\ call.path = "shaft"
                  /\ call.club =
                         processShaftFallback(call.shaft, call.landmarks, call.prev).club
                  /\ call.club # None
        /\ (call.shaft = None \/ call.landmarks.len <= RIGHT_WRIST) => call.club = None

\* a two-pixel head mask next to a shaft detection, with an angle already
\* resolved by an earlier frame
C5_Witness ==
    /\ HeadRejectedForSize
    /\ MaskPixels(call.head) = 2
    /\ call.shaft # None
    /\ call.path = "shaft"
    /\ call.prev # None
    /\ lastAngle = call.prev

\* shortest angular distance, across the wraparound
AngDist(a, b) ==
    LET d == Abs(a - b) IN IF d > Deg(180) THEN Deg(360) - d ELSE d

HeadCallWithPrevious == call # None /\ call.path = "head" /\ call.prev # None

\* C9: on a head-path frame that has a previous resolved angle, smoothing
\* moves the resolved angle by no more than 0.3 times the shortest angular
\* distance between the previous angle and the new disambiguated angle.
C9_StepBounded ==
    HeadCallWithPrevious =>
        AngDist(call.club.angle, call.prev.v)
            <= (SMOOTHING_TENTHS * AngDist(call.prev.v, call.raw)) \div 10

\* a step taken across the wraparound
C9_Witness ==
    /\ HeadCallWithPrevious
    /\ Abs(call.raw - call.prev.v) > Deg(180)
    /\ call.club.angle # call.prev.v
    /\ lastAngle = [v |-> call.club.angle]

\* the distance left after k frames of one raw angle, from the furthest start
RECURSIVE Tolerance(_)
Tolerance(k) ==
    IF k = 0 THEN Deg(180) ELSE ((10 - SMOOTHING_TENTHS) * Tolerance(k - 1)) \div 10

\* C10: while the same disambiguated angle is supplied on consecutive
\* head-path frames the smoothed angle converges to it: after k such frames
\* the shortest angular distance to it is at most 180 * 0.7^k degrees, from
\* any previous angle, so it is below any tolerance after boundedly many.
C10_Converges ==
    streak.n >= 1 => AngDist(lastAngle.v, streak.raw) <= Tolerance(streak.n)

\* three frames into a run of one raw angle, still short of it
C10_Witness ==
    /\ streak.n >= 3
    /\ AngDist(lastAngle.v, streak.raw) > 0
    /\ AngDist(lastAngle.v, streak.raw) <= Tolerance(streak.n)

----------------------------------------------------------------------------
FirstTimestamp == frames[1].timestamp
LastTimestamp == frames[Len(frames)].timestamp

\* C11 (as stated): for every frame sequence, sequences of fewer than 10
\* frames included, the returned interval has start <= end and both lie
\* between the first and the last frame's timestamp.
C11_IntervalWithinFramesAlways ==
    (pc = "done" /\ Len(frames) >= 1) =>
        /\ interval.start <= interval.end
        /\ FirstTimestamp <= interval.start
        /\ interval.end <= LastTimestamp

\* C11: the returned interval has start <= end; for 10 frames or more both
\* lie between the first and the last frame's timestamp; for fewer than 10
\* frames start is 0, which is below the first timestamp when that is
\* positive, and end is the last frame's timestamp.
C11_IntervalWithinFrames ==
    (pc = "done" /\ Len(frames) >= 1) =>
        /\ interval.start <= interval.end
        /\ interval.end <= LastTimestamp
        /\ FirstTimestamp <= interval.end
        /\ Len(frames) >= 10 => FirstTimestamp <= interval.start
        /\ Len(frames) < 10 => (interval.start = 0 /\ interval.end = LastTimestamp)

\* a recording of 10 frames or more whose interval begins after its first frame
C11_Witness ==
    /\ pc = "done"
    /\ Len(frames) >= 10
    /\ scan.ran
    /\ FirstTimestamp = FirstTs
    /\ interval.start > FirstTimestamp
    /\ interval.start < interval.end

C13_ShortSequence ==
    (pc = "done" /\ Len(frames) < 10) =>
        /\ ~scan.ran
        /\ interval.start = 0
        /\ interval.end = IF Len(frames) = 0 THEN 0 ELSE LastTimestamp

\* nine frames of a recording with a moving wrist
C13_Witness ==
    /\ pc = "done"
    /\ Len(frames) = 9
    /\ FirstTimestamp = FirstTs
    /\ frames[9].landmarks.rwr # frames[1].landmarks.rwr
    /\ interval = [start |-> 0, end |-> FirstTs + 8 * TsPerFrame]

\* C14: the impact index maxVelIndex is argmax(velocity): no step has a
\* strictly larger velocity than the step at maxVelIndex, and among equal
\* largest velocities (an all-zero series included) it is the earliest.
C14_ImpactIsArgmax ==
    (pc = "done" /\ scan.ran) =>
        LET vel == Velocities(frames)
        IN  /\ scan.maxVelIndex \in DOMAIN vel
            /\ scan.maxVel = vel[scan.maxVelIndex]
            /\ \A k \in DOMAIN vel :
                   /\ vel[k] <= vel[scan.maxVelIndex]
                   /\ vel[k] = vel[scan.maxVelIndex] => scan.maxVelIndex <= k

\* two steps share the largest velocity and the earlier one is the impact
C14_Witness ==
    /\ pc = "done"
    /\ scan.ran
    /\ scan.maxVel > 0
    /\ \E k \in DOMAIN Velocities(frames) :
           k > scan.maxVelIndex /\ Velocities(frames)[k] = scan.maxVel

\* C15: on the 100-frame swing (velocity 0.01 up to step 39, a ramp to 1.0 at
\* step 45, back to 0.01 from step 50) detectSwingInterval finds
\* maxVelIndex = 45 and a threshold of 0.08, and returns the timestamps of a
\* start frame within 2 of frame 24 and an end frame within 2 of frame 71.
C15_RampExample ==
    (pc = "done" /\ Len(frames) = 100) =>
        /\ scan.maxVelIndex = 45
        /\ \A v \in 78 .. 82 :
               /\ BelowThreshold(v * v, scan.maxVel) <=> v < 80
               /\ AboveThreshold(v * v, scan.maxVel) <=> v > 80
        /\ scan.startIndex \in 22 .. 26
        /\ scan.endIndex \in 69 .. 73
        /\ interval.start = frames[scan.startIndex + 1].timestamp
        /\ interval.end = frames[scan.endIndex + 1].timestamp

\* the linear ramp: frames 24 and 70
C15_Witness ==
    /\ pc = "done"
    /\ Len(frames) = 100
    /\ ~scan.forced
    /\ scan.startIndex = 24
    /\ scan.endIndex = 70
    /\ interval.end - interval.start = 46 * TsPerFrame

----------------------------------------------------------------------------
\* C16: when neither the head class nor the shaft class has a detection
\* above the confidence threshold, detectClub emits no estimate and the
\* frame's club field is left as it was: absent in a sweep that builds its
\* frames, and in a club-only sweep whatever the stored frame had; it is
\* never set to an estimate with angle 0.
C16_NoDetectionNoClub ==
    \A s \in Sessions : \A i \in 1 .. Len(run[s].trace) :
        run[s].trace[i].path = "nodetection" =>
            /\ run[s].doPose => run[s].frames[i].club = None
            /\ ~run[s].doPose => run[s].frames[i].club = store[s].poseFrames[i].club
            /\ run[s].frames[i].club # None => run[s].frames[i].club.score > 0

\* a finished sweep with a full-body frame for which nothing was detected,
\* next to a frame that got an estimate
C16_Witness ==
    \E s \in Sessions : \E i, j \in 1 .. Len(run[s].trace) :
        /\ run[s].pc = "done"
        /\ run[s].trace[i].path = "nodetection"
        /\ run[s].frames[i].landmarks.len > RIGHT_WRIST
        /\ run[s].frames[i].club = None
        /\ run[s].frames[j].club # None

\* the page has gone on to another session while s is still being swept:
\* the one way a user has of abandoning a sweep in progress
Abandoned(s) == Sweeping(run[s]) /\ page.sessionId # [id |-> s]

\* C17: a sweep in progress can be aborted between two frames, and after
\* the abort no further frame of it is analysed: once the page has left a
\* session, its sweep takes no further frame.
C17_NoFrameAfterAbort ==
    [][\A s \in Sessions : Abandoned(s) => run'[s].trace = run[s].trace]_vars

\* the head-path frames of session s before frame j, and the last of them
EarlierHeadFrames(s, j) == {i \in HeadFrames(s) : i < j}
LastHeadBefore(s, j) ==
    CHOOSE i \in EarlierHeadFrames(s, j) : \A k \in EarlierHeadFrames(s, j) : k <= i

\* C18: within one sweep frames are analysed in sequence order and one at a
\* time: the frames done are exactly frames 1 .. i, at most the next frame
\* is in flight, none is begun before the one in flight has completed, and a
\* head-path frame that reads an angle written by its own session reads the
\* one resolved for the nearest earlier head-path frame.
C18_FramesInOrder ==
    \A s \in Sessions :
        /\ Len(run[s].trace) = run[s].i
        /\ run[s].doPose => Len(run[s].frames) = run[s].i
        /\ run[s].pc \in {"init", "infer"} <=> run[s].cur # None
        /\ run[s].cur # None =>
               /\ run[s].i < TotalFrames(s)
               /\ run[s].doPose => run[s].cur.timestamp = run[s].i * TsPerFrame
               /\ ~run[s].doPose => run[s].cur = run[s].frames[run[s].i + 1]
        /\ \A j \in HeadFrames(s) :
               (run[s].trace[j].prevBy = [id |-> s] /\ EarlierHeadFrames(s, j) # {})
                   => run[s].trace[j].prev =
                          [v |-> run[s].frames[LastHeadBefore(s, j)].club.angle]

\* a finished sweep whose second frame was blended with its first
C18_Witness ==
    \E s \in Sessions :
        /\ run[s].pc = "done"
        /\ HeadFrames(s) = {1, 2}
        /\ run[s].trace[2].prevBy = [id |-> s]
        /\ run[s].trace[2].raw # run[s].trace[1].raw
        /\ run[s].trace[2].prev = [v |-> run[s].frames[1].club.angle]
        /\ run[s].frames[2].club.angle # run[s].trace[2].raw

----------------------------------------------------------------------------
\* C19: every estimate detectClub emits, from the head path (after
\* disambiguation and smoothing, whatever the previous resolved angle) or
\* from the shaft fallback, has its angle in [-180, 180] degrees.
C19_AngleInRange ==
    (call # None /\ call.club # None) =>
        /\ call.club.angle >= -Deg(180)
        /\ call.club.angle <= Deg(180)
        /\ call.path = "head" => (lastAngle.v >= -Deg(180) /\ lastAngle.v <= Deg(180))

\* a blend that crosses the wraparound: from a positive angle, towards a
\* negative one, the long way round being the short one
C19_Witness ==
    /\ HeadCallWithPrevious
    /\ call.prev.v > Deg(90)
    /\ call.raw < 0
    /\ call.club.angle < -Deg(90)
    /\ call.club.angle >= -Deg(180)

----------------------------------------------------------------------------
----------------------------------------------------------------------------
\* the largest and the smallest member of a non-empty set of indices
Largest(S) == CHOOSE i \in S : \A k \in S : k <= i
Smallest(S) == CHOOSE i \in S : \A k \in S : i <= k

\* the indices from maxVelIndex down to 0 whose velocity is below the
\* threshold and whose preceding steps (up to 3, as many as there are) are
\* all below it / are none of them above it
BackwardAllBelow ==
    LET vel == Velocities(frames)
    IN  {i \in 0 .. scan.maxVelIndex :
            /\ BelowThreshold(vel[i], scan.maxVel)
            /\ \A j \in 1 .. 3 : i - j >= 0 => BelowThreshold(vel[i - j], scan.maxVel)}

BackwardNoneAbove ==
    LET vel == Velocities(frames)
    IN  {i \in 0 .. scan.maxVelIndex :
            /\ BelowThreshold(vel[i], scan.maxVel)
            /\ \A j \in 1 .. 3 : i - j >= 0 => ~AboveThreshold(vel[i - j], scan.maxVel)}

\* C21 (as stated): the backward scan's boundary is the first index i, from
\* maxVelIndex down, whose velocity is below the threshold and whose
\* preceding 3 steps are all below it; startIndex = max(0, i - 15), and 0 if
\* there is no such index.
C21_BackwardScanAllBelow ==
    (pc = "done" /\ scan.ran) =>
        scan.natStart = IF BackwardAllBelow = {} THEN 0
                        ELSE Max(0, Largest(BackwardAllBelow) - 15)

\* C21: the backward scan's boundary is the first index i, from maxVelIndex
\* down, whose velocity is below the threshold and none of whose preceding 3
\* steps (as many as exist) is above it; startIndex = max(0, i - 15), and 0
\* if there is no such index.
C21_BackwardScan ==
    (pc = "done" /\ scan.ran) =>
        scan.natStart = IF BackwardNoneAbove = {} THEN 0
                        ELSE Max(0, Largest(BackwardNoneAbove) - 15)

\* a step exactly at the threshold among the three before the boundary, and
\* a start index that the 15-frame padding leaves above 0
C21_Witness ==
    /\ pc = "done"
    /\ scan.ran
    /\ BackwardNoneAbove # {}
    /\ Largest(BackwardNoneAbove) \notin BackwardAllBelow
    /\ scan.natStart = Largest(BackwardNoneAbove) - 15
    /\ scan.natStart > 0

\* the indices from maxVelIndex to the end of the velocity series whose
\* velocity is below the threshold and whose following steps (up to 5, as
\* many as there are) are all below it / are none of them above it
ForwardAllBelow ==
    LET vel == Velocities(frames)
        n == Len(frames) - 1
    IN  {i \in scan.maxVelIndex .. n - 1 :
            /\ BelowThreshold(vel[i], scan.maxVel)
            /\ \A j \in 1 .. 5 : i + j < n => BelowThreshold(vel[i + j], scan.maxVel)}

ForwardNoneAbove ==
    LET vel == Velocities(frames)
        n == Len(frames) - 1
    IN  {i \in scan.maxVelIndex .. n - 1 :
            /\ BelowThreshold(vel[i], scan.maxVel)
            /\ \A j \in 1 .. 5 : i + j < n => ~AboveThreshold(vel[i + j], scan.maxVel)}

\* C22 (as stated): the forward scan's boundary is the first index i, from
\* maxVelIndex up, whose velocity is below the threshold and whose following
\* 5 steps are all below it; endIndex = min(lastIndex, i + 20), and lastIndex
\* if there is no such index.
C22_ForwardScanAllBelow ==
    (pc = "done" /\ scan.ran) =>
        scan.natEnd = IF ForwardAllBelow = {} THEN Len(frames) - 1
                      ELSE Min(Len(frames) - 1, Smallest(ForwardAllBelow) + 20)

\* C22: the forward scan's boundary is the first index i, from maxVelIndex
\* up, whose velocity is below the threshold and none of whose following 5
\* steps (as many as exist) is above it; endIndex = min(lastIndex, i + 20),
\* and lastIndex if there is no such index.
C22_ForwardScan ==
    (pc = "done" /\ scan.ran) =>
        scan.natEnd = IF ForwardNoneAbove = {} THEN Len(frames) - 1
                      ELSE Min(Len(frames) - 1, Smallest(ForwardNoneAbove) + 20)

\* a step exactly at the threshold among the five after the boundary, and an
\* end index that the 20-frame padding leaves below the last frame
C22_Witness ==
    /\ pc = "done"
    /\ scan.ran
    /\ ForwardNoneAbove # {}
    /\ Smallest(ForwardNoneAbove) \notin ForwardAllBelow
    /\ scan.natEnd = Smallest(ForwardNoneAbove) + 20
    /\ scan.natEnd < Len(frames) - 1

-----------------------------------------------------------------------------
\* The frames of fs whose timestamp lies within the interval iv, and the set
\* of frames the metrics are to be computed over.
InInterval(fs, iv) ==
    SelectSeq(fs, LAMBDA f : iv.start <= f.timestamp /\ f.timestamp <= iv.end)

UsedFrames(fs, iv) ==
    IF Len(InInterval(fs, iv)) >= 6 THEN InInterval(fs, iv) ELSE fs

\* The largest displacement, in 1/10 cm, of the head position over the frames
\* of used, measured from the head position of its first frame.
HeadMovementOver(used) ==
    LET origin == calculateHeadPosition(used[1].landmarks)
        at(i) == calculateHeadPosition(used[i].landmarks)
        lat == {Abs(at(i).x - origin.x) : i \in 1 .. Len(used)}
        ver == {Abs(at(i).y - origin.y) : i \in 1 .. Len(used)}
    IN  [lateral |-> Round(Largest(lat) * pixelToCm * 10, CoordScale),
         vertical |-> Round(Largest(ver) * pixelToCm * 10, CoordScale)]

\* C23: analyzeSwing computes its metrics over exactly the frames whose
\* timestamp lies in [start, end] of the detected interval when at least 6
\* such frames exist, and over the full sequence otherwise; the address frame
\* is the first frame of the set used: the address spine angle is that
\* frame's, the head movement is the largest displacement over the set from
\* that frame's head position, and the impact spine angle is the spine angle
\* of a frame of the set.
C23_MetricsOverInterval ==
    \A c \in 1 .. Len(calls) :
        calls[c].metrics # None =>
            LET m == calls[c].metrics
                used == UsedFrames(calls[c].frames, m.swingInterval)
            IN  /\ m.spineAngle.address = calculateSpineAngle(used[1].landmarks)
                /\ m.headMovement = HeadMovementOver(used)
                /\ \E i \in 1 .. Len(used) :
                       m.spineAngle.impact = calculateSpineAngle(used[i].landmarks)

\* a call whose interval leaves out the first frame, which has another
\* posture than the first frame inside the interval
C23_Witness ==
    \E c \in 1 .. Len(calls) :
        /\ calls[c].metrics # None
        /\ LET fs == calls[c].frames
               m == calls[c].metrics
               inside == InInterval(fs, m.swingInterval)
           IN  /\ Len(inside) >= 6
               /\ Len(inside) < Len(fs)
               /\ fs[1].timestamp < m.swingInterval.start
               /\ calculateSpineAngle(fs[1].landmarks) # calculateSpineAngle(inside[1].landmarks)
               /\ m.spineAngle.address = calculateSpineAngle(inside[1].landmarks)
               /\ m.headMovement # HeadMovementOver(fs)

-----------------------------------------------------------------------------
\* The frames of used that have the left wrist and the left shoulder, those
\* among them at which the wrist is farthest from the shoulder, and those at
\* which it is farthest and away from the shoulder.
WithArm(used) == {i \in 1 .. Len(used) : used[i].landmarks.len >= 25}

Farthest(used) ==
    {i \in WithArm(used) :
        \A k \in WithArm(used) : ArmDistance(used[k].landmarks) <= ArmDistance(used[i].landmarks)}

FarthestAway(used) ==
    {i \in Farthest(used) : ArmDistance(used[i].landmarks) > 0}

ImpactMetricsAt(m, used, i) ==
    /\ m.spineAngle.impact = calculateSpineAngle(used[i].landmarks)
    /\ m.spineAngle.change = m.spineAngle.impact - calculateSpineAngle(used[1].landmarks)

\* C24 as stated: the impact frame is the earliest frame of the analysis set
\* at which the left wrist is farthest from the left shoulder, frames lacking
\* those landmarks being skipped; if no frame has them it is the address
\* frame, so that the spine angle change is 0.
C24_ImpactIsFarthestArm ==
    \A c \in 1 .. Len(calls) :
        calls[c].metrics # None =>
            LET m == calls[c].metrics
                used == UsedFrames(calls[c].frames, m.swingInterval)
            IN  IF WithArm(used) = {}
                THEN ImpactMetricsAt(m, used, 1) /\ m.spineAngle.change = 0
                ELSE ImpactMetricsAt(m, used, Smallest(Farthest(used)))

\* C24: the impact frame is the earliest frame of the analysis set at which
\* the left wrist is farthest from the left shoulder, provided that distance
\* is positive; frames lacking those landmarks are skipped; if no frame has
\* the wrist away from the shoulder the impact frame is the address frame, so
\* that the spine angle change is 0.
C24_ImpactIsFarthestPositiveArm ==
    \A c \in 1 .. Len(calls) :
        calls[c].metrics # None =>
            LET m == calls[c].metrics
                used == UsedFrames(calls[c].frames, m.swingInterval)
            IN  IF FarthestAway(used) = {}
                THEN ImpactMetricsAt(m, used, 1) /\ m.spineAngle.change = 0
                ELSE ImpactMetricsAt(m, used, Smallest(FarthestAway(used)))

\* a call with a skipped frame and two frames of different spine angle tied
\* for the farthest arm, the earlier of which is not the address frame
C24_Witness ==
    \E c \in 1 .. Len(calls) :
        /\ calls[c].metrics # None
        /\ LET m == calls[c].metrics
               used == UsedFrames(calls[c].frames, m.swingInterval)
               first == Smallest(FarthestAway(used))
           IN  /\ WithArm(used) # 1 .. Len(used)
               /\ FarthestAway(used) # {}
               /\ first > 1
               /\ \E k \in FarthestAway(used) :
                      calculateSpineAngle(used[k].landmarks) # calculateSpineAngle(used[first].landmarks)
               /\ m.spineAngle.impact = calculateSpineAngle(used[first].landmarks)
               /\ m.spineAngle.change # 0

-----------------------------------------------------------------------------
\* The anchors whose score for class c exceeds the confidence threshold, and
\* those among them with the highest score.
AboveConfidence(anchors, c) ==
    {i \in 1 .. Len(anchors) : anchors[i].cls[c + 1] > CONFIDENCE_THRESHOLD}

TopAnchors(anchors, c) ==
    {i \in AboveConfidence(anchors, c) :
        \A k \in AboveConfidence(anchors, c) : anchors[k].cls[c + 1] <= anchors[i].cls[c + 1]}

\* C25: after the anchor scan a class (shaft 0, head 1) has a retained
\* candidate exactly when some anchor's score for it exceeds the confidence
\* threshold; the retained score, box and mask coefficients are those of the
\* anchor with the highest score for the class, the earliest one on ties.
C25_BestAnchorPerClass ==
    pc = "done" =>
        \A c \in {0, 1} :
            LET anchors == call.anchors
                kept == call.best[c]
            IN  /\ kept # None <=> AboveConfidence(anchors, c) # {}
                /\ kept # None =>
                       LET a == anchors[Smallest(TopAnchors(anchors, c))]
                       IN  /\ kept.index = Smallest(TopAnchors(anchors, c)) - 1
                           /\ kept.score = a.cls[c + 1]
                           /\ kept.box = Box(a.cx - a.w \div 2, a.cy - a.h \div 2,
                                             a.cx + a.w \div 2, a.cy + a.h \div 2)
                           /\ kept.mask = a.mask

\* a scan in which the head class has two anchors tied for the highest score
\* after a lower one above the threshold, and the shaft class has an anchor
\* exactly at the threshold and none above it
C25_Witness ==
    /\ pc = "done"
    /\ Cardinality(TopAnchors(call.anchors, 1)) = 2
    /\ Cardinality(AboveConfidence(call.anchors, 1)) = 3
    /\ call.best[1].index = 1
    /\ \E i \in 1 .. Len(call.anchors) : call.anchors[i].cls[1] = CONFIDENCE_THRESHOLD
    /\ AboveConfidence(call.anchors, 0) = {}
    /\ call.best[0] = None
    /\ call.club # None

-----------------------------------------------------------------------------
\* The principal axis of the head mask of the last call, and the direction
\* from the hands' midpoint to the mask's centroid.
AxisAngle == computePCA(call.head.mask).angle

HandsToCentroid ==
    LET centre == computePCA(call.head.mask).center
        h == HandsMid(call.landmarks)
    IN  FromTenths(Atan2Tenths(centre.y - h.y, centre.x - h.x))

\* the angle a brought into (-180, 180], for a in (-180, 540]
Principal(a) == IF a > Deg(180) THEN a - Deg(360) ELSE a

\* C26: on the head path the axis angle is rotated by 180 degrees exactly when
\* its folded angular difference from the direction hands -> centroid exceeds
\* 90 degrees, and the disambiguated angle is always within 90 degrees of that
\* direction.
C26_AxisPointsAwayFromHands ==
    (call # None /\ call.path = "head") =>
        /\ AngDist(AxisAngle, HandsToCentroid) > Deg(90)
               => call.raw = Principal(AxisAngle + Deg(180))
        /\ AngDist(AxisAngle, HandsToCentroid) <= Deg(90)
               => call.raw = AxisAngle
        /\ AngDist(call.raw, HandsToCentroid) <= Deg(90)

\* a head above the hands whose upright axis came out as +90: it is rotated,
\* and the rotated angle is brought back into range, to -90
C26_Witness ==
    /\ call # None
    /\ call.path = "head"
    /\ AxisAngle = Deg(90)
    /\ HandsToCentroid = -Deg(90)
    /\ call.raw = -Deg(90)

-----------------------------------------------------------------------------
\* The corners of the retained shaft box that are furthest from the hands'
\* midpoint.
FurthestCorners ==
    LET h == HandsMid(call.landmarks)
        cs == {Corners(call.best[0].box)[k] : k \in 1 .. 4}
    IN  {q \in cs : \A o \in cs : DistSq(o, h) <= DistSq(q, h)}

\* C27: in the shaft fallback the emitted angle is the direction from the
\* hands' midpoint to a corner of the shaft box at maximum distance from that
\* midpoint, the emitted score is 0.8 times the detection's score, and the
\* debug point is that corner.
C27_ShaftFallbackEstimate ==
    (pc = "done" /\ call.path = "shaft") =>
        /\ call.club.score * 10 = call.best[0].score * 8
        /\ \E q \in FurthestCorners :
               LET h == HandsMid(call.landmarks)
               IN  /\ call.club.angle = FromTenths(Atan2Tenths(q.y - h.y, q.x - h.x))
                   /\ call.club.debugPoint = Normalized(q)

\* the shaft box's only furthest corner is its bottom-left one, down and to
\* the left of the hands
C27_Witness ==
    /\ pc = "done"
    /\ call.path = "shaft"
    /\ FurthestCorners = {Corners(call.best[0].box)[4]}
    /\ call.club.angle = Deg(135)
    /\ call.club.score = (call.best[0].score * 8) \div 10
    /\ call.club.score < call.best[0].score
    /\ call.club.debugPoint = Normalized(Corners(call.best[0].box)[4])

-----------------------------------------------------------------------------
\* C28: for every sequence of at least 10 frames the indices satisfy
\* startIndex <= maxVelIndex <= endIndex <= lastIndex, after the natural scan
\* and after the forced window alike, and the timestamp of the frame at
\* maxVelIndex lies within the returned interval.
C28_PeakInsideInterval ==
    (pc = "done" /\ Len(frames) >= 10) =>
        /\ scan.ran
        /\ 0 <= scan.natStart /\ scan.natStart <= scan.maxVelIndex
        /\ scan.maxVelIndex <= scan.natEnd /\ scan.natEnd <= Len(frames) - 1
        /\ 0 <= scan.startIndex /\ scan.startIndex <= scan.maxVelIndex
        /\ scan.maxVelIndex <= scan.endIndex /\ scan.endIndex <= Len(frames) - 1
        /\ interval.start <= frames[scan.maxVelIndex + 1].timestamp
        /\ frames[scan.maxVelIndex + 1].timestamp <= interval.end

\* the fastest step is the last one, the natural scan ended there less than
\* 30 frames after its start, and the forced window begins after frame 0
C28_Witness ==
    /\ pc = "done"
    /\ scan.ran
    /\ scan.maxVelIndex = Len(frames) - 2
    /\ scan.natStart > 0
    /\ scan.natEnd = Len(frames) - 1
    /\ scan.forced
    /\ scan.startIndex = scan.maxVelIndex - 45
    /\ scan.startIndex > 0
    /\ scan.endIndex = Len(frames) - 1

-----------------------------------------------------------------------------
\* Session s completes a frame in this step; the history entry and the frame.
Completes(s) == Len(run'[s].trace) = Len(run[s].trace) + 1

CompletedEntry(s) == run'[s].trace[Len(run'[s].trace)]

CompletedFrame(s) == run'[s].frames[Len(run'[s].trace)]

\* the direction from the hands' midpoint to the furthest corner of a box
ShaftDirection(box, lm) ==
    LET h == HandsMid(lm)
        cs == {Corners(box)[k] : k \in 1 .. 4}
        q == CHOOSE c \in cs : \A o \in cs : DistSq(o, h) <= DistSq(c, h)
    IN  FromTenths(Atan2Tenths(q.y - h.y, q.x - h.x))

\* C29: the last resolved angle is written only by a head-path estimate: a
\* step that changes it completes a head-path frame with an estimate, equal
\* to the new value; frames resolved by the shaft fallback, frames with no
\* detection, frames lacking the wrists and frames whose inference throws
\* leave it unchanged, and a shaft-fallback frame's angle is the direction to
\* the box's furthest corner, not blended with the last angle.
C29_OnlyHeadPathWritesLastAngle ==
    [][/\ lastAngle' # lastAngle =>
              \E s \in Sessions :
                  /\ Completes(s)
                  /\ CompletedEntry(s).path = "head"
                  /\ CompletedFrame(s).club # None
                  /\ lastAngle' = [v |-> CompletedFrame(s).club.angle]
       /\ \A s \in Sessions :
              (Completes(s) /\ CompletedEntry(s).path # "head") =>
                  /\ lastAngle' = lastAngle
                  /\ CompletedEntry(s).path = "shaft" =>
                         \E sh \in ShaftDetections :
                             CompletedFrame(s).club.angle
                                 = ShaftDirection(sh.box, CompletedFrame(s).landmarks)]_vars

\* a sweep whose first frame took the head path and whose second frame took
\* the shaft fallback: the last angle is still the first frame's, and the
\* second frame's angle is the plain direction, away from it
C29_Witness ==
    \E s \in Sessions :
        /\ Len(run[s].trace) = 2
        /\ run[s].trace[1].path = "head"
        /\ run[s].trace[2].path = "shaft"
        /\ lastAngle = [v |-> run[s].frames[1].club.angle]
        /\ run[s].frames[2].club.angle = Deg(45)
        /\ run[s].frames[1].club.angle # Deg(45)
        /\ \E t \in Sessions \ {s} :
               /\ Len(run[t].trace) >= 1
               /\ run[t].trace[1].path = "threw"

-----------------------------------------------------------------------------
\* Session s has been swept to the end and its frames saved.
SweptAndSaved(s) ==
    /\ run[s].pc = "done"
    /\ Len(run[s].trace) > 0
    /\ run[s].doClub
    /\ store[s].poseFrames = run[s].frames

\* C30: once a session's frames have been swept for club detection and the
\* session saved, loading it again does not start another sweep, whether or
\* not every frame (the first one included) received a club estimate.
C30_NoSecondSweep ==
    [][\A s \in Sessions :
           (SweptAndSaved(s) /\ run'[s] # run[s]) => ~Sweeping(run'[s])]_vars
====
